---- MODULE Spec2Model ----
(***************************************************************************)
(* Model of the form filler: FormFillerConfig.validate (config_file.py)    *)
(* and the sequencer FormFiller.fill_forms with the calls it makes         *)
(* (main_form_filler.py).  Durations are integers in hundredths of a       *)
(* second.  A run is modelled one primitive at a time (each pyautogui      *)
(* call, each time.sleep, each log line of the loop body), so that every   *)
(* point where FailSafeException, another exception or KeyboardInterrupt   *)
(* can arrive is a state.                                                  *)
(***************************************************************************)
EXTENDS Integers, Sequences, FiniteSets, TLC

VARIABLES
  cfg,          \* the FormFillerConfig the FormFiller was built with
  nrec,         \* len(data)
  nan,          \* cells <<row, column>> of data that hold NaN
  field_order,  \* argument of fill_forms
  start_row,    \* argument of fill_forms
  max_records,  \* argument of fill_forms (None or an integer)
  end_row,      \* local of fill_forms
  index,        \* loop variable of fill_forms (Unbound before the loop binds it)
  todo,         \* primitives of the current loop iteration not yet executed
  pc,           \* position in fill_forms / validate
  actions,      \* synthetic input events and sleeps issued so far
  log,          \* lines written to the logger or the console so far
  stop,         \* what ended the run: none, failsafe, error, return_false, unexpected, interrupt
  vres,         \* result of validate(): NotRun, ok, or the option named by the ValueError
  called,       \* the method called on its own (NoCall during fill_forms and validate)
  ret           \* what that call returned: none, True or False

vars == <<cfg, nrec, nan, field_order, start_row, max_records, end_row, index,
          todo, pc, actions, log, stop, vres, called, ret>>

-----------------------------------------------------------------------------
(* Bounds of the model *)

MaxRecords == 5
MaxStart == 2
MaxMax == 2
MaxNaN == 1
MaxLimit == 1

-----------------------------------------------------------------------------
(* Values *)

\* Optional[int]: None is the empty tuple, an integer n is <<n>>
None == << >>
Some(n) == << n >>
ValueOf(o) == o[1]
Unbound == 0 - 1
NaN == <<>>
NoText == <<"-">>
NoCall == [fn |-> "-", method |-> "-", text |-> NoText, clear |-> FALSE]

Columns == {"name", "email"}

FieldOrders == { <<"name", "email">>, <<"name", "phone", "email">>, <<"email">> }

Cells(n) == (0 .. (n - 1)) \X Columns

NavMethods == {"tab", "enter", "click"}
SubMethods == {"enter", "tab_enter", "click"}

\* FormFillerConfig defaults, config_file.py lines 19-46
DEFAULT_CONFIG ==
  [ pause_between_actions |-> 50,
    typing_interval |-> 5,
    field_transition_delay |-> 30,
    form_submission_delay |-> 200,
    record_delay |-> 100,
    page_load_delay |-> 300,
    wait_for_page_load |-> TRUE,
    clear_fields |-> TRUE,
    navigation_method |-> "tab",
    submission_method |-> "enter",
    skip_empty_fields |-> TRUE,
    max_field_length |-> None,
    max_records_per_session |-> None,
    log_level |-> "INFO" ]

-----------------------------------------------------------------------------
(* FormFillerConfig.validate *)

\* ValidateChecks with the pause test written "<= 0", so that a zero pause is rejected
ValidateChecks_strict(c) ==
  << [field |-> "pause_between_actions", bad |-> c.pause_between_actions <= 0],
     [field |-> "typing_interval", bad |-> c.typing_interval < 0],
     [field |-> "navigation_method", bad |-> c.navigation_method \notin {"tab", "enter", "click"}],
     [field |-> "submission_method", bad |-> c.submission_method \notin {"enter", "tab_enter", "click"}],
     [field |-> "log_level", bad |-> c.log_level \notin {"DEBUG", "INFO", "WARNING", "ERROR"}],
     [field |-> "max_field_length",
      bad |-> c.max_field_length # None /\ ValueOf(c.max_field_length) <= 0],
     [field |-> "max_records_per_session",
      bad |-> c.max_records_per_session # None /\ ValueOf(c.max_records_per_session) <= 0] >>

\* ValidateChecks with the two method tests ahead of the two duration tests
ValidateChecks_reordered(c) ==
  << [field |-> "navigation_method", bad |-> c.navigation_method \notin {"tab", "enter", "click"}],
     [field |-> "submission_method", bad |-> c.submission_method \notin {"enter", "tab_enter", "click"}],
     [field |-> "pause_between_actions", bad |-> c.pause_between_actions < 0],
     [field |-> "typing_interval", bad |-> c.typing_interval < 0],
     [field |-> "log_level", bad |-> c.log_level \notin {"DEBUG", "INFO", "WARNING", "ERROR"}],
     [field |-> "max_field_length",
      bad |-> c.max_field_length # None /\ ValueOf(c.max_field_length) <= 0],
     [field |-> "max_records_per_session",
      bad |-> c.max_records_per_session # None /\ ValueOf(c.max_records_per_session) <= 0] >>

ValidateChecks(c) ==
  << [field |-> "pause_between_actions", bad |-> c.pause_between_actions < 0],
     [field |-> "typing_interval", bad |-> c.typing_interval < 0],
     [field |-> "navigation_method", bad |-> c.navigation_method \notin {"tab", "enter", "click"}],
     [field |-> "submission_method", bad |-> c.submission_method \notin {"enter", "tab_enter", "click"}],
     [field |-> "log_level", bad |-> c.log_level \notin {"DEBUG", "INFO", "WARNING", "ERROR"}],
     [field |-> "max_field_length",
      bad |-> c.max_field_length # None /\ ValueOf(c.max_field_length) <= 0],
     [field |-> "max_records_per_session",
      bad |-> c.max_records_per_session # None /\ ValueOf(c.max_records_per_session) <= 0] >>

\* validate(): the checks run in order and the first one that is bad raises
validate(c) ==
  LET checks == ValidateChecks(c)
      bad == {i \in 1 .. Len(checks) : checks[i].bad}
  IN IF bad = {} THEN "ok"
     ELSE checks[CHOOSE i \in bad : \A j \in bad : i <= j].field

-----------------------------------------------------------------------------
(* Primitives *)

\* fld is the field of field_order the primitive is issued for ("-" outside
\* fill_single_record)
Prim(call, op, key, text, dur) ==
  [call |-> call, op |-> op, key |-> key, text |-> text, dur |-> dur, fld |-> "-"]

RECURSIVE ForField(_, _)
ForField(ops, field_name) ==
  IF ops = << >> THEN << >>
  ELSE << [Head(ops) EXCEPT !.fld = field_name] >> \o ForField(Tail(ops), field_name)

IsInput(p) == p.op \in {"hotkey", "write", "press"}

\* type_text selecting the field's content after it typed the text
type_text_clear_late(text, clear_field) ==
  << Prim("type_text", "write", "text", text, 0) >>
  \o (IF clear_field
        THEN << Prim("type_text", "hotkey", "ctrl+a", NoText, 0),
                Prim("type_text", "sleep", "select_all", NoText, 10) >>
        ELSE << >>)

\* type_text(text, clear_field)
type_text(text, clear_field) ==
  (IF clear_field
     THEN << Prim("type_text", "hotkey", "ctrl+a", NoText, 0),
             Prim("type_text", "sleep", "select_all", NoText, 10) >>
     ELSE << >>)
  \o << Prim("type_text", "write", "text", text, 0) >>

\* move_to_next_field treating an unknown method like click
move_to_next_field_lenient(method, c) ==
  IF method = "tab"
    THEN << Prim("move", "press", "tab", NoText, 0),
            Prim("move", "sleep", "field_transition_delay", NoText, c.field_transition_delay) >>
  ELSE IF method = "enter"
    THEN << Prim("move", "press", "enter", NoText, 0),
            Prim("move", "sleep", "field_transition_delay", NoText, c.field_transition_delay) >>
  ELSE << Prim("move", "sleep", "field_transition_delay", NoText, c.field_transition_delay) >>

\* move_to_next_field(method)
move_to_next_field(method, c) ==
  IF method = "tab"
    THEN << Prim("move", "press", "tab", NoText, 0),
            Prim("move", "sleep", "field_transition_delay", NoText, c.field_transition_delay) >>
  ELSE IF method = "enter"
    THEN << Prim("move", "press", "enter", NoText, 0),
            Prim("move", "sleep", "field_transition_delay", NoText, c.field_transition_delay) >>
  ELSE IF method = "click"
    THEN << Prim("move", "sleep", "field_transition_delay", NoText, c.field_transition_delay) >>
  ELSE << Prim("move", "log", "Unknown navigation method", NoText, 0),
          Prim("move", "return_false", "-", NoText, 0) >>

\* submit_form pressing enter right after tab, without the pause between them
submit_form_no_pause(method, c) ==
  (IF method = "enter"
     THEN << Prim("submit", "press", "enter", NoText, 0) >>
   ELSE IF method = "tab_enter"
     THEN << Prim("submit", "press", "tab", NoText, 0),
             Prim("submit", "press", "enter", NoText, 0) >>
   ELSE << >>)
  \o << Prim("submit", "sleep", "form_submission_delay", NoText, c.form_submission_delay) >>

\* submit_form(method)
submit_form(method, c) ==
  (IF method = "enter"
     THEN << Prim("submit", "press", "enter", NoText, 0) >>
   ELSE IF method = "tab_enter"
     THEN << Prim("submit", "press", "tab", NoText, 0),
             Prim("submit", "sleep", "tab_enter_pause", NoText, 50),
             Prim("submit", "press", "enter", NoText, 0) >>
   ELSE << >>)
  \o << Prim("submit", "sleep", "form_submission_delay", NoText, c.form_submission_delay) >>

\* the default arguments the call sites of fill_single_record and fill_forms rely on
TypeClearArg == TRUE
MoveMethodArg(c) == "tab"
SubmitMethodArg(c) == "enter"

\* data.iloc[i].to_dict(): every column of the table, NaN where the cell is empty
RecordAt(i, nanCells) ==
  [f \in Columns |-> IF <<i, f>> \in nanCells THEN NaN ELSE <<i, f>>]

notna(value) == value # NaN

\* fill_field with the navigation issued before the text instead of after it
fill_field_swapped(record, field_name, c) ==
  ForField(
    IF field_name \in DOMAIN record
      THEN IF notna(record[field_name])
             THEN move_to_next_field(MoveMethodArg(c), c)
                  \o type_text(record[field_name], TypeClearArg)
             ELSE << >>
      ELSE << Prim("fill", "log", "Field not found in record", NoText, 0) >>
           \o move_to_next_field(MoveMethodArg(c), c),
    field_name)

\* fill_field typing the value a second time before it moves on
fill_field_retry(record, field_name, c) ==
  ForField(
    IF field_name \in DOMAIN record
      THEN IF notna(record[field_name])
             THEN type_text(record[field_name], TypeClearArg)
                  \o type_text(record[field_name], TypeClearArg)
                  \o move_to_next_field(MoveMethodArg(c), c)
             ELSE << >>
      ELSE << Prim("fill", "log", "Field not found in record", NoText, 0) >>
           \o move_to_next_field(MoveMethodArg(c), c),
    field_name)

\* one iteration of the loop of fill_single_record
fill_field(record, field_name, c) ==
  ForField(
    IF field_name \in DOMAIN record
      THEN IF notna(record[field_name])
             THEN type_text(record[field_name], TypeClearArg)
                  \o move_to_next_field(MoveMethodArg(c), c)
             ELSE << >>
      ELSE << Prim("fill", "log", "Field not found in record", NoText, 0) >>
           \o move_to_next_field(MoveMethodArg(c), c),
    field_name)

RECURSIVE fill_fields(_, _, _, _)
fill_fields(record, fo, k, c) ==
  IF k > Len(fo) THEN << >>
  ELSE fill_field(record, fo[k], c) \o fill_fields(record, fo, k + 1, c)

fill_single_record(record, fo, c) == fill_fields(record, fo, 1, c)

\* loop_body sleeping page_load_delay whatever wait_for_page_load says
loop_body_always_wait(record, fo, c) ==
  fill_single_record(record, fo, c)
  \o submit_form(SubmitMethodArg(c), c)
  \o << Prim("fill_forms", "sleep", "record_delay", NoText, c.record_delay),
        Prim("fill_forms", "sleep", "page_load_delay", NoText, c.page_load_delay),
        Prim("fill_forms", "log", "Successfully processed record", NoText, 0) >>

\* the body of the loop of fill_forms after the "Processing record" line
loop_body(record, fo, c) ==
  fill_single_record(record, fo, c)
  \o submit_form(SubmitMethodArg(c), c)
  \o << Prim("fill_forms", "sleep", "record_delay", NoText, c.record_delay) >>
  \o (IF c.wait_for_page_load
        THEN << Prim("fill_forms", "sleep", "page_load_delay", NoText, c.page_load_delay) >>
        ELSE << >>)
  \o << Prim("fill_forms", "log", "Successfully processed record", NoText, 0) >>

Min(a, b) == IF a < b THEN a ELSE b

\* compute_end_row taking start_row + max_records as the last index to process
compute_end_row_inclusive(start, maxr, n) ==
  IF maxr # None /\ ValueOf(maxr) # 0 THEN Min(start + ValueOf(maxr) + 1, n) ELSE n

\* compute_end_row taking a max_records of 0 as a limit of zero records
compute_end_row_zero_limit(start, maxr, n) ==
  IF maxr # None THEN Min(start + ValueOf(maxr), n) ELSE n

\* lines 253-256: "if max_records" is false for None and for 0
compute_end_row(start, maxr, n) ==
  IF maxr # None /\ ValueOf(maxr) # 0 THEN Min(start + ValueOf(maxr), n) ELSE n

-----------------------------------------------------------------------------
(* Inputs *)

NanSets(n) == {S \in SUBSET Cells(n) : Cardinality(S) <= MaxNaN}

MaxRecordsArgs == {None} \cup {Some(m) : m \in 0 .. MaxMax}

\* configurations the sequencer is run with
RunConfigs ==
  { [DEFAULT_CONFIG EXCEPT !.navigation_method = nav, !.submission_method = sub,
                           !.skip_empty_fields = skip, !.wait_for_page_load = wait]
      : nav \in NavMethods, sub \in SubMethods, skip \in BOOLEAN, wait \in BOOLEAN }
  \cup { [DEFAULT_CONFIG EXCEPT !.record_delay = 0 - 1],
         [DEFAULT_CONFIG EXCEPT !.page_load_delay = 0 - 1],
         [DEFAULT_CONFIG EXCEPT !.field_transition_delay = 0 - 1],
         [DEFAULT_CONFIG EXCEPT !.form_submission_delay = 0 - 1],
         [DEFAULT_CONFIG EXCEPT !.max_records_per_session = Some(0)] }

Entry(msg, rec) == [msg |-> msg, rec |-> rec]

InitRun(c, n, cells, fo, s, m) ==
  /\ cfg = c
  /\ nrec = n
  /\ nan = cells
  /\ field_order = fo
  /\ start_row = s
  /\ max_records = m
  /\ end_row = Unbound
  /\ index = Unbound
  /\ todo = << >>
  /\ pc = "start"
  /\ actions = << >>
  /\ log = << >>
  /\ stop = "none"
  /\ vres = "NotRun"
  /\ called = NoCall
  /\ ret = "none"

\* every table, field order and range with the default configuration, and
\* every run configuration with a two-record table
Init ==
  \/ \E n \in 0 .. MaxRecords, fo \in FieldOrders, s \in 0 .. MaxStart, m \in MaxRecordsArgs :
       \E cells \in NanSets(n) : InitRun(DEFAULT_CONFIG, n, cells, fo, s, m)
  \/ \E c \in RunConfigs, fo \in FieldOrders :
       \E cells \in NanSets(2) : InitRun(c, 2, cells, fo, 0, None)

-----------------------------------------------------------------------------
(* fill_forms *)

Running == pc \in {"for", "body"}

\* lines 252-258
Start ==
  /\ pc = "start"
  /\ end_row' = compute_end_row(start_row, max_records, nrec)
  /\ log' = Append(log, Entry("Processing records", 0))
  /\ pc' = "for"
  /\ UNCHANGED <<cfg, nrec, nan, field_order, start_row, max_records, index, todo,
                 actions, stop, vres, called, ret>>

\* the loop taking the same index again
NextIndex_same == IF index = Unbound THEN start_row ELSE index

NextIndex == IF index = Unbound THEN start_row ELSE index + 1

\* lines 260-263: the loop takes its next index
NextRecord ==
  /\ pc = "for"
  /\ NextIndex < end_row
  /\ index' = NextIndex
  /\ todo' = loop_body(RecordAt(NextIndex, nan), field_order, cfg)
  /\ log' = Append(log, Entry("Processing record", NextIndex + 1))
  /\ pc' = "body"
  /\ UNCHANGED <<cfg, nrec, nan, field_order, start_row, max_records, end_row,
                 actions, stop, vres, called, ret>>

\* line 284, reached when the range is exhausted
Complete ==
  /\ pc = "for"
  /\ ~(NextIndex < end_row)
  /\ log' = Append(log, Entry("Form filling completed!", 0))
  /\ pc' = "done"
  /\ UNCHANGED <<cfg, nrec, nan, field_order, start_row, max_records, end_row, index,
                 todo, actions, stop, vres, called, ret>>

Event(p) == [call |-> p.call, op |-> p.op, key |-> p.key, text |-> p.text,
             dur |-> p.dur, fld |-> p.fld, rec |-> index]

AfterPrim == IF Len(todo) = 1 THEN "for" ELSE "body"

\* the next primitive of the iteration executes normally
StepOk ==
  /\ pc = "body"
  /\ LET p == Head(todo) IN
       /\ p.op # "return_false"
       /\ p.op = "sleep" => p.dur >= 0
       /\ IF p.op = "log"
            THEN /\ log' = Append(log, Entry(p.key, index + 1))
                 /\ UNCHANGED actions
            ELSE /\ actions' = Append(actions, Event(p))
                 /\ UNCHANGED log
  /\ todo' = Tail(todo)
  /\ pc' = AfterPrim
  /\ UNCHANGED <<cfg, nrec, nan, field_order, start_row, max_records, end_row, index,
                 stop, vres, called, ret>>

\* what can make the callee return False at primitive p
FailCauses(p) ==
  (IF IsInput(p) THEN {"failsafe", "error"} ELSE {})
  \cup (IF p.op = "sleep" /\ p.dur < 0 THEN {"error"} ELSE {})
  \cup (IF p.op = "return_false" THEN {"return_false"} ELSE {})

CalleeLog(p, cause) ==
  IF cause = "failsafe" THEN << Entry("FailSafe triggered - stopping automation", 0) >>
  ELSE IF cause = "error"
    THEN << Entry(IF p.call = "type_text" THEN "Error typing text"
                  ELSE IF p.call = "move" THEN "Error moving to next field"
                  ELSE "Error submitting form", 0) >>
  ELSE << >>

\* lines 266-273 and 284: what fill_forms does when a call returns False
on_false(p, i) ==
  << Entry(IF p.call = "submit" THEN "Failed to submit record" ELSE "Failed to fill record",
           i + 1),
     Entry("Form filling completed!", 0) >>

\* the loop going on to the next record after a call returned False
pc_after_false_continue(call) == "for"

\* the break missing after a failed submit only
pc_after_false_submit(call) == IF call = "submit" THEN "for" ELSE "done"

\* the break of lines 268 and 273
pc_after_false(call) == "done"

\* type_text, move_to_next_field or submit_form returns False at its next
\* primitive; pyautogui.write may have typed part of the text before it raised
StepFail ==
  /\ pc = "body"
  /\ Head(todo).call \in {"type_text", "move", "submit"}
  /\ \E cause \in FailCauses(Head(todo)), partial \in BOOLEAN :
       LET p == Head(todo) IN
       /\ partial => p.op = "write"
       /\ actions' = IF partial
                       THEN Append(actions, [Event(p) EXCEPT !.op = "write_partial"])
                       ELSE actions
       /\ log' = log \o CalleeLog(p, cause) \o on_false(p, index)
       /\ stop' = cause
       /\ pc' = pc_after_false(p.call)
  /\ UNCHANGED <<cfg, nrec, nan, field_order, start_row, max_records, end_row, index,
                 todo, vres, called, ret>>

\* lines 291-292: time.sleep of a negative delay raises in fill_forms itself
Unexpected ==
  /\ pc = "body"
  /\ Head(todo).call = "fill_forms"
  /\ Head(todo).op = "sleep" /\ Head(todo).dur < 0
  /\ log' = Append(log, Entry("Unexpected error", 0))
  /\ stop' = "unexpected"
  /\ pc' = "done"
  /\ UNCHANGED <<cfg, nrec, nan, field_order, start_row, max_records, end_row, index,
                 todo, actions, vres, called, ret>>

\* lines 286-288: KeyboardInterrupt arrives; with index still unbound the
\* handler's f-string raises and the error leaves fill_forms
on_interrupt(i) ==
  IF i = Unbound
    THEN << Entry("UnboundLocalError leaves fill_forms", 0) >>
    ELSE << Entry("Process interrupted by user at record", i + 1),
            Entry("Stopped at record", i + 1) >>

Interrupt ==
  /\ Running
  /\ log' = log \o on_interrupt(index)
  /\ stop' = "interrupt"
  /\ pc' = "done"
  /\ UNCHANGED <<cfg, nrec, nan, field_order, start_row, max_records, end_row, index,
                 todo, actions, vres, called, ret>>

Next ==
  \/ Start
  \/ NextRecord
  \/ Complete
  \/ StepOk
  \/ StepFail
  \/ Unexpected
  \/ Interrupt

Spec == Init /\ [][Next]_vars

-----------------------------------------------------------------------------
(* validate() on its own *)

DurationInputs == {0 - 1, 0, 1}
LimitInputs == {None} \cup {Some(n) : n \in 0 .. MaxLimit}

ConfigInput(d1, d2, d3, d4, d5, d6, nav, sub, lvl, mfl, mrs) ==
  [DEFAULT_CONFIG EXCEPT !.pause_between_actions = d1, !.typing_interval = d2,
                         !.field_transition_delay = d3, !.form_submission_delay = d4,
                         !.record_delay = d5, !.page_load_delay = d6,
                         !.navigation_method = nav, !.submission_method = sub,
                         !.log_level = lvl,
                         !.max_field_length = mfl, !.max_records_per_session = mrs]

\* CommonConfigs, config_file.py lines 115-170
fast_filling ==
  [DEFAULT_CONFIG EXCEPT !.pause_between_actions = 10, !.typing_interval = 1,
                         !.field_transition_delay = 10, !.form_submission_delay = 100,
                         !.record_delay = 50, !.page_load_delay = 150]

slow_reliable ==
  [DEFAULT_CONFIG EXCEPT !.pause_between_actions = 100, !.typing_interval = 10,
                         !.field_transition_delay = 50, !.form_submission_delay = 300,
                         !.record_delay = 200, !.page_load_delay = 500]

web_forms ==
  [DEFAULT_CONFIG EXCEPT !.pause_between_actions = 50, !.typing_interval = 5,
                         !.field_transition_delay = 30, !.form_submission_delay = 200,
                         !.record_delay = 150, !.page_load_delay = 400,
                         !.navigation_method = "tab", !.submission_method = "enter",
                         !.wait_for_page_load = TRUE]

desktop_apps ==
  [DEFAULT_CONFIG EXCEPT !.pause_between_actions = 30, !.typing_interval = 3,
                         !.field_transition_delay = 20, !.form_submission_delay = 100,
                         !.record_delay = 50, !.page_load_delay = 100,
                         !.navigation_method = "tab", !.submission_method = "enter",
                         !.wait_for_page_load = FALSE]

PredefinedConfigs == {DEFAULT_CONFIG, fast_filling, slow_reliable, web_forms, desktop_apps}

CfgInit ==
  /\ \/ \E d1 \in DurationInputs, d2 \in DurationInputs, d3 \in DurationInputs,
           d4 \in DurationInputs, d5 \in DurationInputs, d6 \in DurationInputs,
           nav \in NavMethods \cup {"arrow"}, sub \in SubMethods \cup {"space"},
           lvl \in {"INFO", "TRACE"}, mfl \in LimitInputs, mrs \in LimitInputs :
          cfg = ConfigInput(d1, d2, d3, d4, d5, d6, nav, sub, lvl, mfl, mrs)
     \/ cfg \in PredefinedConfigs
  /\ nrec = 0
  /\ nan = {}
  /\ field_order = << >>
  /\ start_row = 0
  /\ max_records = None
  /\ end_row = Unbound
  /\ index = Unbound
  /\ todo = << >>
  /\ pc = "config"
  /\ actions = << >>
  /\ log = << >>
  /\ stop = "none"
  /\ vres = "NotRun"
  /\ called = NoCall
  /\ ret = "none"

\* config.validate()
Validate ==
  /\ pc = "config"
  /\ vres' = validate(cfg)
  /\ pc' = "validated"
  /\ UNCHANGED <<cfg, nrec, nan, field_order, start_row, max_records, end_row, index,
                 todo, actions, log, stop, called, ret>>

CfgNext == Validate

CfgSpec == CfgInit /\ [][CfgNext]_vars

-----------------------------------------------------------------------------
(* type_text, move_to_next_field and submit_form called on their own *)

CallTexts == { <<0, "name">>, <<1, "email">> }

\* configurations of a single call: the defaults, zero delays, and a negative
\* delay for each of the two sleeps the callees read from the configuration
CallConfigs ==
  { DEFAULT_CONFIG,
    [DEFAULT_CONFIG EXCEPT !.field_transition_delay = 0, !.form_submission_delay = 0],
    [DEFAULT_CONFIG EXCEPT !.field_transition_delay = 0 - 1],
    [DEFAULT_CONFIG EXCEPT !.form_submission_delay = 0 - 1] }

CallOf(fn, method, text, clear) ==
  [fn |-> fn, method |-> method, text |-> text, clear |-> clear]

\* the primitives of the call
body_of(k, c) ==
  IF k.fn = "type_text" THEN type_text(k.text, k.clear)
  ELSE IF k.fn = "move_to_next_field" THEN move_to_next_field(k.method, c)
  ELSE submit_form(k.method, c)

InitCall(c, k) ==
  /\ cfg = c
  /\ nrec = 0
  /\ nan = {}
  /\ field_order = << >>
  /\ start_row = 0
  /\ max_records = None
  /\ end_row = Unbound
  /\ index = Unbound
  /\ todo = body_of(k, c)
  /\ pc = "call"
  /\ actions = << >>
  /\ log = << >>
  /\ stop = "none"
  /\ vres = "NotRun"
  /\ called = k
  /\ ret = "none"

CallInit ==
  \E c \in CallConfigs :
    \/ \E text \in CallTexts, clear \in BOOLEAN :
         InitCall(c, CallOf("type_text", "-", text, clear))
    \/ \E method \in NavMethods \cup {"arrow"} :
         InitCall(c, CallOf("move_to_next_field", method, NoText, FALSE))
    \/ \E method \in SubMethods \cup {"space"} :
         InitCall(c, CallOf("submit_form", method, NoText, FALSE))

\* the next statement of the callee executes normally
CallOk ==
  /\ pc = "call" /\ todo # << >>
  /\ LET p == Head(todo) IN
       /\ p.op # "return_false"
       /\ p.op = "sleep" => p.dur >= 0
       /\ IF p.op = "log"
            THEN /\ log' = Append(log, Entry(p.key, 0))
                 /\ UNCHANGED actions
            ELSE /\ actions' = Append(actions, Event(p))
                 /\ UNCHANGED log
  /\ todo' = Tail(todo)
  /\ UNCHANGED <<cfg, nrec, nan, field_order, start_row, max_records, end_row, index,
                 pc, stop, vres, called, ret>>

\* the 'return True' that ends each try block
CallReturnTrue ==
  /\ pc = "call" /\ todo = << >>
  /\ ret' = "True"
  /\ pc' = "returned"
  /\ UNCHANGED <<cfg, nrec, nan, field_order, start_row, max_records, end_row, index,
                 todo, actions, log, stop, vres, called>>

\* the except clauses and the 'return False' of the unknown navigation
\* method; pyautogui.write may have typed part of the text before it raised
CallFail ==
  /\ pc = "call" /\ todo # << >>
  /\ \E cause \in FailCauses(Head(todo)), partial \in BOOLEAN :
       LET p == Head(todo) IN
       /\ partial => p.op = "write"
       /\ actions' = IF partial
                       THEN Append(actions, [Event(p) EXCEPT !.op = "write_partial"])
                       ELSE actions
       /\ log' = log \o CalleeLog(p, cause)
       /\ stop' = cause
  /\ ret' = "False"
  /\ pc' = "returned"
  /\ UNCHANGED <<cfg, nrec, nan, field_order, start_row, max_records, end_row, index,
                 todo, vres, called>>

\* KeyboardInterrupt is not an Exception: no except clause of the callee
\* catches it and it leaves the call
CallInterrupt ==
  /\ pc = "call"
  /\ stop' = "interrupt"
  /\ pc' = "raised"
  /\ UNCHANGED <<cfg, nrec, nan, field_order, start_row, max_records, end_row, index,
                 todo, actions, log, vres, called, ret>>

CallNext ==
  \/ CallOk
  \/ CallReturnTrue
  \/ CallFail
  \/ CallInterrupt

CallSpec == CallInit /\ [][CallNext]_vars

-----------------------------------------------------------------------------
(* Vocabulary of the properties *)

\* the claim-level name of an emitted event
Kind(e) ==
  IF e.op = "write" THEN "type"
  ELSE IF e.op = "press" /\ e.call = "move" THEN "advance"
  ELSE IF e.op = "press" /\ e.call = "submit" THEN "submit"
  ELSE IF e.op = "sleep" /\ e.key = "record_delay" THEN "delay"
  ELSE "other"

RECURSIVE ViewOf(_, _)
ViewOf(evs, i) ==
  IF evs = << >> THEN << >>
  ELSE LET e == Head(evs) IN
       (IF e.rec = i /\ Kind(e) # "other"
          THEN << [kind |-> Kind(e), text |-> e.text] >> ELSE << >>)
       \o ViewOf(Tail(evs), i)

RECURSIVE ExpectedFields(_, _, _)
ExpectedFields(fo, k, i) ==
  IF k > Len(fo) THEN << >>
  ELSE << [kind |-> "type", text |-> <<i, fo[k]>>], [kind |-> "advance", text |-> NoText] >>
       \o ExpectedFields(fo, k + 1, i)

ExpectedFull(i) ==
  ExpectedFields(field_order, 1, i)
  \o << [kind |-> "submit", text |-> NoText], [kind |-> "delay", text |-> NoText] >>

\* every field of field_order is a column of the table and record i holds a value in it
FullRecord(i) ==
  \A k \in 1 .. Len(field_order) :
    field_order[k] \in Columns /\ <<i, field_order[k]>> \notin nan

CompletedReported == \E k \in 1 .. Len(log) : log[k].msg = "Form filling completed!"

EndsCompleted == log # << >> /\ log[Len(log)].msg = "Form filling completed!"

Ascending == \A k \in 1 .. (Len(actions) - 1) : actions[k].rec <= actions[k + 1].rec

Count(evs, i, kind) ==
  Cardinality({k \in 1 .. Len(evs) : evs[k].rec = i /\ Kind(evs[k]) = kind})

CleanEnd == pc = "done" /\ stop = "none"

CallFailures == {"failsafe", "error", "return_false"}

\* the run-level delays are the two sleeps of fill_forms
IsRunDelay(e) == e.op = "sleep" /\ e.call = "fill_forms"

FailureReportedFor(i) ==
  \E k \in 1 .. Len(log) :
    /\ log[k].msg \in {"Failed to fill record", "Failed to submit record"}
    /\ log[k].rec = i + 1

-----------------------------------------------------------------------------
(* C1: a run that meets no failure and no abort emits, for every record of
   the range whose fields of field_order are all present and hold a value,
   type(value), advance for each field in field_order order, then one submit
   and the inter-record delay; records are handled in ascending order and
   the run ends with the completion report. *)
C1_ActionsPerRecord ==
  CleanEnd =>
    /\ EndsCompleted
    /\ Ascending
    /\ \A i \in start_row .. (end_row - 1) :
         FullRecord(i) =>
           /\ ViewOf(actions, i) = ExpectedFull(i)
           /\ Count(actions, i, "type") = Len(field_order)
           /\ Count(actions, i, "advance") = Len(field_order)
           /\ Count(actions, i, "submit") = 1

C1_Witness ==
  /\ CleanEnd
  /\ field_order = <<"name", "email">>
  /\ nan = {}
  /\ start_row = 0 /\ end_row = 2 /\ nrec = 2
  /\ Count(actions, 0, "type") = 2 /\ Count(actions, 1, "submit") = 1

(* C2: once type_text, move_to_next_field or submit_form has returned False
   for record i the run is over: nothing more can happen, no input event
   exists for a later record, no record or page-load delay was issued for
   record i, and the log names record i (as record number i + 1) as failed. *)
C2_StopOnFailure ==
  stop \in CallFailures =>
    /\ pc = "done"
    /\ ~ ENABLED Next
    /\ \A k \in 1 .. Len(actions) :
         /\ actions[k].rec <= index
         /\ actions[k].rec = index => ~ IsRunDelay(actions[k])
    /\ FailureReportedFor(index)

C2_Witness ==
  /\ stop = "error"
  /\ pc = "done"
  /\ index = 1 /\ nrec = 3 /\ end_row = 3
  /\ Count(actions, 0, "submit") = 1
  /\ Count(actions, 1, "type") = 1
  /\ FailureReportedFor(1)

(* C3: a FailSafe abort raised at a hotkey, write or press while record i is
   being processed ends the run with no event of record i + 1 or later. *)
C3_AbortHalts ==
  stop = "failsafe" =>
    /\ pc = "done"
    /\ ~ ENABLED NextRecord
    /\ ~ ENABLED StepOk
    /\ \A k \in 1 .. Len(actions) : actions[k].rec <= index
    /\ \A k \in 1 .. Len(log) : log[k].msg = "Processing record" => log[k].rec <= index + 1

C3_Witness ==
  /\ stop = "failsafe"
  /\ pc = "done"
  /\ nrec = 5 /\ end_row = 5 /\ index = 2
  /\ Count(actions, 2, "type") = 1

-----------------------------------------------------------------------------
(* Records and reports *)

Max(S) == CHOOSE x \in S : \A y \in S : y <= x

\* records whose submit_form returned True (its closing sleep was reached)
SubmittedRecords ==
  {actions[k].rec : k \in {j \in 1 .. Len(actions) :
      actions[j].call = "submit" /\ actions[j].op = "sleep"
      /\ actions[j].key = "form_submission_delay"}}

\* index of the last record that was both filled and submitted
LastCompleted == IF SubmittedRecords = {} THEN start_row - 1 ELSE Max(SubmittedRecords)

\* the record numbers a stopped run prints
StopReports ==
  {log[k].rec : k \in {j \in 1 .. Len(log) :
      log[j].msg \in {"Process interrupted by user at record", "Stopped at record",
                        "Failed to fill record", "Failed to submit record"}}}

\* fill_single_record has returned True for record i
FillReturned(i) ==
  /\ index # Unbound
  /\ i \in start_row .. index
  /\ pc \in {"for", "body", "done"}
  /\ \/ i < index
     \/ todo = << >>
     \/ Head(todo).call \in {"submit", "fill_forms"}

EventsFor(i, f, kind) ==
  {k \in 1 .. Len(actions) :
     actions[k].rec = i /\ actions[k].fld = f /\ Kind(actions[k]) = kind}

RECURSIVE Indices(_)
Indices(lg) ==
  IF lg = << >> THEN << >>
  ELSE (IF Head(lg).msg = "Processing record" THEN << Head(lg).rec - 1 >> ELSE << >>)
       \o Indices(Tail(lg))

RECURSIVE RangeSeq(_, _)
RangeSeq(lo, hi) == IF lo >= hi THEN << >> ELSE << lo >> \o RangeSeq(lo + 1, hi)

RECURSIVE SubmitKeysOf(_, _)
SubmitKeysOf(evs, i) ==
  IF evs = << >> THEN << >>
  ELSE (IF Head(evs).rec = i /\ Kind(Head(evs)) = "submit" THEN << Head(evs).key >> ELSE << >>)
       \o SubmitKeysOf(Tail(evs), i)

ConfiguredSubmitKeys(method) ==
  IF method = "enter" THEN << "enter" >>
  ELSE IF method = "tab_enter" THEN << "tab", "enter" >>
  ELSE << >>

(* C4: when the run is stopped by a FailSafe abort or by KeyboardInterrupt
   after at least one record was filled and submitted, the record number the
   stop report prints designates the last record that was both filled and
   submitted (read as its index or as its 1-based number). *)
C4_StopReportsLastCompleted ==
  (pc = "done" /\ stop \in {"failsafe", "interrupt"} /\ SubmittedRecords # {}) =>
    /\ StopReports # {}
    /\ \A n \in StopReports : n = LastCompleted \/ n - 1 = LastCompleted

(* C5: the completion report is made only when every record of the range was
   filled and submitted, never by a run that stopped on a failure, an abort
   or an interrupt, and nothing happens after the terminal state. *)
C5_OneOutcome ==
  pc = "done" =>
    /\ ~ ENABLED Next
    /\ CompletedReported =>
         /\ stop = "none"
         /\ \A i \in start_row .. (end_row - 1) : i \in SubmittedRecords
    /\ stop # "none" => ~ CompletedReported

(* C6: with a positive max_records, a run without failure processes exactly
   the records start_row .. min(start_row + max_records, len(data)) - 1, each
   once and in ascending order, touches no other record and ends with the
   completion report. *)
C6_Range ==
  (CleanEnd /\ max_records # None /\ ValueOf(max_records) > 0) =>
    LET hi == Min(start_row + ValueOf(max_records), nrec) IN
    /\ Indices(log) = RangeSeq(start_row, hi)
    /\ SubmittedRecords = start_row .. (hi - 1)
    /\ \A i \in start_row .. (hi - 1) : Count(actions, i, "submit") = 1
    /\ \A k \in 1 .. Len(actions) : actions[k].rec \in start_row .. (hi - 1)
    /\ EndsCompleted

C6_Witness ==
  /\ CleanEnd
  /\ nrec = 5 /\ start_row = 1 /\ max_records = Some(2)
  /\ Indices(log) = << 1, 2 >>
  /\ SubmittedRecords = {1, 2}

(* C7: when fill_single_record returns True, every field of field_order that
   is not a key of the record got no type action and one advance action, and
   the number of advance actions of the record equals len(field_order). *)
C7_AdvancePerField ==
  \A i \in 0 .. (nrec - 1) :
    FillReturned(i) =>
      /\ Count(actions, i, "advance") = Len(field_order)
      /\ \A k \in 1 .. Len(field_order) :
           field_order[k] \notin Columns =>
             /\ EventsFor(i, field_order[k], "type") = {}
             /\ Cardinality(EventsFor(i, field_order[k], "advance")) = 1

(* C8: with skip_empty_fields set, a field of field_order whose value in the
   record is NaN gets no type action and still gets its advance action. *)
C8_EmptyFieldAdvances ==
  \A i \in 0 .. (nrec - 1) :
    (FillReturned(i) /\ cfg.skip_empty_fields) =>
      \A k \in 1 .. Len(field_order) :
        <<i, field_order[k]>> \in nan =>
          /\ EventsFor(i, field_order[k], "type") = {}
          /\ Cardinality(EventsFor(i, field_order[k], "advance")) = 1

(* C9: every advance presses the key of cfg.navigation_method and every
   completed submit pressed the keys of cfg.submission_method. *)
C9_ConfiguredMethods ==
  /\ \A k \in 1 .. Len(actions) :
       Kind(actions[k]) = "advance" => actions[k].key = cfg.navigation_method
  /\ \A i \in SubmittedRecords :
       SubmitKeysOf(actions, i) = ConfiguredSubmitKeys(cfg.submission_method)

\* the invariants of the configuration data model
ViolatesDataModel(c) ==
  \/ c.pause_between_actions < 0
  \/ c.typing_interval < 0
  \/ c.field_transition_delay < 0
  \/ c.form_submission_delay < 0
  \/ c.record_delay < 0
  \/ c.page_load_delay < 0
  \/ c.navigation_method \notin NavMethods
  \/ c.submission_method \notin SubMethods
  \/ (c.max_field_length # None /\ ValueOf(c.max_field_length) <= 0)
  \/ (c.max_records_per_session # None /\ ValueOf(c.max_records_per_session) <= 0)

(* C10: validate() raises for every configuration that violates an invariant
   of the data model. *)
C10_RejectsViolations ==
  (pc = "validated" /\ ViolatesDataModel(cfg)) => vres # "ok"

(* C11 as claimed: validate() raises nothing for every configuration that
   satisfies the data-model invariants, whatever its other options hold. *)
C11_AcceptsDataModel ==
  (pc = "validated" /\ ~ ViolatesDataModel(cfg)) => vres = "ok"

(* C11: validate() raises nothing for every configuration that satisfies the
   data-model invariants and whose log_level is DEBUG, INFO, WARNING or
   ERROR; the default and the four predefined configurations pass. *)
C11_AcceptsValid ==
  pc = "validated" =>
    /\ (~ ViolatesDataModel(cfg) /\ cfg.log_level \in {"DEBUG", "INFO", "WARNING", "ERROR"})
         => vres = "ok"
    /\ cfg \in PredefinedConfigs => vres = "ok"

C11_Witness ==
  /\ pc = "validated"
  /\ cfg.pause_between_actions = 0 /\ cfg.record_delay = 0
  /\ cfg.navigation_method = "click" /\ cfg.submission_method = "tab_enter"
  /\ cfg.max_field_length = Some(1) /\ cfg.log_level = "INFO"
  /\ ~ ViolatesDataModel(cfg)
  /\ vres = "ok"

\* the order in which validate() tests the options
ValidationOrder ==
  << "pause_between_actions", "typing_interval", "navigation_method", "submission_method",
     "log_level", "max_field_length", "max_records_per_session" >>

\* whether option f of c holds a value validate() is documented to refuse
Refused(c, f) ==
  IF f = "pause_between_actions" THEN c.pause_between_actions < 0
  ELSE IF f = "typing_interval" THEN c.typing_interval < 0
  ELSE IF f = "navigation_method" THEN c.navigation_method \notin NavMethods
  ELSE IF f = "submission_method" THEN c.submission_method \notin SubMethods
  ELSE IF f = "log_level" THEN c.log_level \notin {"DEBUG", "INFO", "WARNING", "ERROR"}
  ELSE IF f = "max_field_length"
    THEN c.max_field_length # None /\ ValueOf(c.max_field_length) <= 0
  ELSE c.max_records_per_session # None /\ ValueOf(c.max_records_per_session) <= 0

RefusedAt(c) == {k \in 1 .. Len(ValidationOrder) : Refused(c, ValidationOrder[k])}

(* C20: when several tested options are invalid at once, the error of
   validate() names the first of them in the validation order, never a
   later one. *)
C20_FirstViolation ==
  (pc = "validated" /\ RefusedAt(cfg) # {}) =>
    \E k \in RefusedAt(cfg) :
      /\ vres = ValidationOrder[k]
      /\ \A j \in RefusedAt(cfg) : k <= j

C20_Witness ==
  /\ pc = "validated"
  /\ cfg.pause_between_actions >= 0
  /\ cfg.typing_interval < 0
  /\ cfg.navigation_method = "arrow"
  /\ cfg.max_records_per_session = Some(0)
  /\ vres = "typing_interval"

(* C12: no synthetic input is emitted unless validate() has been run on the
   configuration and has succeeded; a configuration validate() refuses gets
   no input at all. *)
C12_ValidatedBeforeInput ==
  actions # << >> => (vres = "ok" /\ validate(cfg) = "ok")

\* the text events (whole or partial) of field f of record i
TypeEventsFor(i, f) ==
  {k \in 1 .. Len(actions) :
     actions[k].rec = i /\ actions[k].fld = f /\ actions[k].op \in {"write", "write_partial"}}

\* type (whole or partial), advance, submit, or other
Class(e) == IF e.op = "write_partial" THEN "type" ELSE Kind(e)

\* positions of the type, advance and submit events
Attempts == {k \in 1 .. Len(actions) : Class(actions[k]) \in {"type", "advance", "submit"}}

\* positions of the log lines that open a loop iteration
Taken == {k \in 1 .. Len(log) : log[k].msg = "Processing record"}

(* C13: in every state of every run, failed or not, each (record, field)
   pair has at most one type action and at most one advance action, each
   record has at most one submit, and no record index was taken twice. *)
C13_NoRetries ==
  LET A == Attempts
      T == Taken
  IN /\ Cardinality({log[k].rec : k \in T}) = Cardinality(T)
     /\ Cardinality({<<actions[k].rec, actions[k].fld, Class(actions[k])>> : k \in A})
          = Cardinality(A)

C13_Witness ==
  /\ pc = "done" /\ stop = "error"
  /\ index = 1
  /\ field_order = <<"name", "email">>
  /\ Count(actions, 0, "submit") = 1
  /\ Cardinality(TypeEventsFor(1, "name")) = 1
  /\ Cardinality(EventsFor(1, "name", "advance")) = 1
  /\ Head(todo).fld = "email" /\ Head(todo).op = "write"

\* an upper bound of the number of primitives of one loop iteration, plus one
IterationCost == 5 * Len(field_order) + 8

Max0(n) == IF n < 0 THEN 0 ELSE n

\* records the loop has still to take
RecordsLeft ==
  LET last == IF pc = "start" THEN nrec ELSE end_row
  IN IF index = Unbound THEN Max0(last - start_row) ELSE Max0(last - index - 1)

\* a natural number that every step of a run decreases
Measure ==
  IF pc = "done" THEN 0
  ELSE 1 + (IF pc = "start" THEN 1 ELSE 0) + Len(todo) + RecordsLeft * IterationCost

(* C14: a started run reaches a terminal state: while it is not done a step
   is possible, every step lowers a natural-number measure, so the steps end,
   and they end in pc = "done"; the record cursor never decreases. *)
C14_Terminates ==
  /\ [](pc # "done" => ENABLED Next)
  /\ [](Measure >= 0)
  /\ [][Measure' < Measure /\ index' >= index]_vars

C14_Witness ==
  /\ pc = "done"
  /\ nrec = 3 /\ index = 2
  /\ stop = "interrupt"
  /\ field_order = <<"name", "phone", "email">>

\* positions of the run-level sleeps
RunDelays == {k \in 1 .. Len(actions) : IsRunDelay(actions[k])}

\* positions of the run-level sleeps of record i named key
RunDelaysOf(i, key) == {k \in RunDelays : actions[k].rec = i /\ actions[k].key = key}

\* the loop iteration of record i has run to its end
IterationDone(i) ==
  /\ index # Unbound
  /\ i \in start_row .. index
  /\ i < index \/ (todo = << >> /\ pc \in {"for", "done"})

\* event k closes a submit_form that returned True
ClosesSubmit(k) ==
  actions[k].call = "submit" /\ actions[k].op = "sleep"
  /\ actions[k].key = "form_submission_delay"

(* C15: once the iteration of a filled and submitted record is over, and so
   before any action of the next record, record_delay was slept once, right
   after the submit, and then page_load_delay once exactly when
   wait_for_page_load is set; a record whose fill or submit failed gets
   neither delay. *)
C15_Delays ==
  LET D == RunDelays IN
  /\ \A k \in D :
       /\ k > 1 /\ actions[k - 1].rec = actions[k].rec
       /\ IF actions[k].key = "record_delay"
            THEN /\ actions[k].dur = cfg.record_delay
                 /\ ClosesSubmit(k - 1)
            ELSE /\ actions[k].key = "page_load_delay"
                 /\ cfg.wait_for_page_load
                 /\ actions[k].dur = cfg.page_load_delay
                 /\ actions[k - 1].key = "record_delay" /\ IsRunDelay(actions[k - 1])
  /\ Cardinality({<<actions[k].rec, actions[k].key>> : k \in D}) = Cardinality(D)
  /\ \A i \in 0 .. (nrec - 1) :
       IterationDone(i) =>
         /\ \E k \in D : actions[k].rec = i /\ actions[k].key = "record_delay"
         /\ cfg.wait_for_page_load =>
              \E k \in D : actions[k].rec = i /\ actions[k].key = "page_load_delay"
  /\ Ascending
  /\ stop \in CallFailures => \A k \in D : actions[k].rec # index

C15_Witness ==
  /\ ~ cfg.wait_for_page_load
  /\ pc = "body" /\ index = 1
  /\ IterationDone(0)
  /\ Cardinality(RunDelaysOf(0, "record_delay")) = 1
  /\ RunDelaysOf(0, "page_load_delay") = {}
  /\ Count(actions, 1, "type") = 1

(* C16: with skip_empty_fields not set, every field of field_order that is a
   key of the record, empty or not, gets one type action followed by one
   advance action. *)
C16_HonoursSkipFlag ==
  \A i \in 0 .. (nrec - 1) :
    (FillReturned(i) /\ ~ cfg.skip_empty_fields) =>
      \A k \in 1 .. Len(field_order) :
        field_order[k] \in Columns =>
          /\ Cardinality(EventsFor(i, field_order[k], "type")) = 1
          /\ Cardinality(EventsFor(i, field_order[k], "advance")) = 1

\* what a call on its own has emitted: operation, key and duration of each event
Emitted == [k \in 1 .. Len(actions) |-> <<actions[k].op, actions[k].key, actions[k].dur>>]

IsPrefix(a, b) == Len(a) <= Len(b) /\ \A k \in 1 .. Len(a) : a[k] = b[k]

InputFailures == {"failsafe", "error"}

ExpectedSubmit(method, delay) ==
  (IF method = "enter" THEN << <<"press", "enter", 0>> >>
   ELSE IF method = "tab_enter"
     THEN << <<"press", "tab", 0>>, <<"sleep", "tab_enter_pause", 50>>,
             <<"press", "enter", 0>> >>
   ELSE << >>)
  \o << <<"sleep", "form_submission_delay", delay>> >>

(* C17: submit_form(method) issues exactly the input sequence of its method
   ('enter': one enter press; 'tab_enter': tab, half a second, enter;
   'click': nothing), then sleeps form_submission_delay and returns True; an
   abort or a dispatch error at a key press makes it return False with the
   remaining key presses and the submission delay not issued. *)
C17_SubmitSequence ==
  (called.fn = "submit_form" /\ called.method \in SubMethods) =>
    LET E == ExpectedSubmit(called.method, cfg.form_submission_delay)
        n == Len(actions)
    IN /\ IsPrefix(Emitted, E)
       /\ ret = "True" => (Emitted = E /\ stop = "none")
       /\ (pc = "returned" /\ stop = "none") => ret = "True"
       /\ stop \in InputFailures =>
            /\ pc = "returned" /\ ret = "False"
            /\ n < Len(E)
            /\ \A k \in 1 .. n : actions[k].key # "form_submission_delay"
            /\ E[n + 1][1] = "press" \/ cfg.form_submission_delay < 0

C17_Witness ==
  /\ called.fn = "submit_form" /\ called.method = "tab_enter"
  /\ pc = "returned" /\ ret = "False" /\ stop = "failsafe"
  /\ Emitted = << <<"press", "tab", 0>>, <<"sleep", "tab_enter_pause", 50>> >>

ExpectedMove(method, delay) ==
  (IF method = "click" THEN << >> ELSE << <<"press", method, 0>> >>)
  \o << <<"sleep", "field_transition_delay", delay>> >>

(* C18: move_to_next_field(method) presses tab for 'tab' and enter for
   'enter', issues no input for 'click', and in the three cases then sleeps
   field_transition_delay and returns True; with any other method it returns
   False with no input issued and no sleep; an abort or a dispatch error
   during the key press makes it return False. *)
C18_AdvanceField ==
  called.fn = "move_to_next_field" =>
    IF called.method \in NavMethods
      THEN LET E == ExpectedMove(called.method, cfg.field_transition_delay) IN
           /\ IsPrefix(Emitted, E)
           /\ ret = "True" => (Emitted = E /\ stop = "none")
           /\ (pc = "returned" /\ stop = "none") => ret = "True"
           /\ stop \in InputFailures =>
                /\ pc = "returned" /\ ret = "False"
                /\ actions = << >> \/ cfg.field_transition_delay < 0
      ELSE /\ actions = << >>
           /\ ret # "True"
           /\ pc = "returned" => (ret = "False" /\ stop = "return_false")

C18_Witness ==
  /\ called.fn = "move_to_next_field" /\ called.method = "arrow"
  /\ pc = "returned" /\ ret = "False" /\ actions = << >>
  /\ log = << Entry("Unknown navigation method", 0) >>

\* positions of the clear-selection command and of the text input, whole or partial
Clears == {k \in 1 .. Len(actions) : actions[k].op = "hotkey"}
Writes == {k \in 1 .. Len(actions) : actions[k].op \in {"write", "write_partial"}}

(* C19: type_text(text, clear_field) issues the clear-selection command if
   and only if clear_field is set, before the text input and never after it;
   an abort or a dispatch error at the clear-selection command or at the text
   input makes it return False and never leaves the call as an exception; if
   the clear-selection command fails no text is typed. *)
C19_FillField ==
  called.fn = "type_text" =>
    /\ Clears # {} => called.clear
    /\ Cardinality(Clears) <= 1 /\ Cardinality(Writes) <= 1
    /\ \A k \in Clears, j \in Writes : k < j
    /\ \A j \in Writes : actions[j].text = called.text /\ (called.clear => Clears # {})
    /\ ret = "True" =>
         Emitted = (IF called.clear
                      THEN << <<"hotkey", "ctrl+a", 0>>, <<"sleep", "select_all", 10>> >>
                      ELSE << >>)
                   \o << <<"write", "text", 0>> >>
    /\ (pc = "returned" /\ stop = "none") => ret = "True"
    /\ stop \in InputFailures =>
         /\ pc = "returned" /\ ret = "False"
         /\ \A j \in Writes : actions[j].op = "write_partial"
         /\ (called.clear /\ Clears = {}) => Writes = {}
    /\ pc = "raised" => stop = "interrupt"

C19_Witness ==
  /\ called.fn = "type_text" /\ called.clear
  /\ pc = "returned" /\ ret = "False" /\ stop = "error"
  /\ actions = << >>
  /\ log = << Entry("Error typing text", 0) >>

(* C21: a max_records of 0 means no limit: a run that ends without failure
   has taken and submitted every record from start_row to the end of the
   table; and with start_row at or beyond the number of records no input
   action is ever emitted and the run, unless interrupted, ends by logging
   that form filling completed. *)
C21_RangeEdges ==
  /\ (CleanEnd /\ max_records = Some(0)) =>
       /\ end_row = nrec
       /\ Indices(log) = RangeSeq(start_row, nrec)
       /\ SubmittedRecords = start_row .. (nrec - 1)
       /\ \A i \in start_row .. (nrec - 1) : Count(actions, i, "submit") = 1
  /\ start_row >= nrec =>
       /\ actions = << >>
       /\ Indices(log) = << >>
       /\ stop \in {"none", "interrupt"}
       /\ pc = "done" => (stop = "none" <=> EndsCompleted)

C21_Witness ==
  /\ CleanEnd /\ EndsCompleted
  /\ max_records = Some(0) /\ nrec = 3 /\ start_row = 1
  /\ SubmittedRecords = {1, 2}

====
